---- MODULE Spec2Model ----
(***************************************************************************)
(* CacheHandler (lib/handler/cache-handler.js): the response-event         *)
(* interceptor that decides whether a response is cacheable, builds a       *)
(* provisional CacheStoreValue, streams the body into it and hands it to    *)
(* the CacheStore on completion, while forwarding every event to the        *)
(* wrapped handler.                                                         *)
(*                                                                          *)
(* Buffers and header values are TLA+ strings (ASCII, so byteLength =       *)
(* length = Len).  JS numbers that may be NaN or undefined are records      *)
(* [kind, v].  A nullable reference is a sequence of length 0 or 1.         *)
(***************************************************************************)
EXTENDS Integers, Sequences, FiniteSets, TLC

(***************************************************************************)
(* Bounds of the model.                                                     *)
(***************************************************************************)
\* onData events delivered for one response
MaxChunks == 2
\* stray onData/onComplete events delivered after onError
MaxLate == 1
\* chunks written to one write stream of the reference store
MaxBody == 2
\* the latest time the reference store's clock reaches
MaxTime == 2
\* responses delivered to one handler instance
MaxResponses == 2

(***************************************************************************)
(* JavaScript values.                                                       *)
(***************************************************************************)
\* a finite number with integer value n
Num(n) == [kind |-> "num", v |-> n]
\* a finite number strictly between n and n + 1
Frac(n) == [kind |-> "frac", v |-> n]
NaN == [kind |-> "nan", v |-> 0]
Undefined == [kind |-> "undefined", v |-> 0]

\* ToBoolean of a number-or-undefined: 0, NaN and undefined are falsy
Truthy(x) == (x.kind = "frac") \/ (x.kind = "num" /\ x.v # 0)

\* Number.isInteger
IsInteger(x) == x.kind = "num"

\* x * 1000 for a directive value (an integer when defined)
Times1000(x) == IF x.kind = "num" THEN Num(x.v * 1000) ELSE NaN

\* the stand-in for Infinity: larger than every size and count of the model
Infinity == 1000000000

\* null / undefined reference, and a reference to x
Null == <<>>
Ref(x) == <<x>>

RECURSIVE SumLen(_)
\* sum of the lengths of the strings of a sequence
SumLen(arr) == IF arr = <<>> THEN 0 ELSE Len(Head(arr)) + SumLen(Tail(arr))

RECURSIVE Join(_)
\* Array.prototype.join(', ')
Join(toks) ==
  IF toks = <<>> THEN ""
  ELSE IF Len(toks) = 1 THEN toks[1]
  ELSE toks[1] \o ", " \o Join(Tail(toks))

(***************************************************************************)
(* Cache-Control directives (the object parseCacheControlHeader returns).   *)
(* Boolean directives are TRUE when present; numeric ones are Num(n) or     *)
(* Undefined; no-cache and private are undefined, true, or an array of      *)
(* header names.                                                            *)
(***************************************************************************)
NoNames == [kind |-> "undefined", names |-> <<>>]
AllNames == [kind |-> "true", names |-> <<>>]
Names(list) == [kind |-> "array", names |-> list]

Directives(pub, smax, mustrev, priv, nocache, restrict, immut, maxage, swr) ==
  [ public |-> pub,
    private |-> priv,
    immutable |-> immut ] @@
  ( "s-maxage" :> smax ) @@
  ( "must-revalidate" :> mustrev ) @@
  ( "no-cache" :> nocache ) @@
  ( "no-store" :> ("no-store" \in restrict) ) @@
  ( "no-transform" :> ("no-transform" \in restrict) ) @@
  ( "must-understand" :> ("must-understand" \in restrict) ) @@
  ( "proxy-revalidate" :> ("proxy-revalidate" \in restrict) ) @@
  ( "max-age" :> maxage ) @@
  ( "stale-while-revalidate" :> swr )

\* text of a boolean directive
FlagToken(d, k) == IF d[k] THEN <<k>> ELSE <<>>
\* text of a delta-seconds directive
DeltaToken(d, k) ==
  IF d[k].kind = "num" THEN <<k \o "=" \o ToString(d[k].v)>> ELSE <<>>
\* text of a directive that may carry a quoted header-name list
ListToken(d, k) ==
  CASE d[k].kind = "true" -> <<k>>
    [] d[k].kind = "array" -> <<k \o "=\"" \o Join(d[k].names) \o "\"">>
    [] OTHER -> <<>>

\* the Cache-Control header value that carries exactly the directives d
FormatCacheControl(d) ==
  Join( FlagToken(d, "public") \o DeltaToken(d, "s-maxage")
        \o FlagToken(d, "must-revalidate") \o ListToken(d, "private")
        \o ListToken(d, "no-cache") \o FlagToken(d, "no-store")
        \o FlagToken(d, "no-transform") \o FlagToken(d, "must-understand")
        \o FlagToken(d, "proxy-revalidate") \o FlagToken(d, "immutable")
        \o DeltaToken(d, "max-age") \o DeltaToken(d, "stale-while-revalidate") )

RestrictiveNames == {"no-store", "no-transform", "must-understand", "proxy-revalidate"}

\* directive sets that vary the freshness directives
TimingDirectives ==
  { Directives(pub, smax, FALSE, NoNames, NoNames, {}, immut, maxage, swr) :
      pub \in BOOLEAN, smax \in {Undefined, Num(0), Num(5)}, immut \in BOOLEAN,
      maxage \in {Undefined, Num(0), Num(10), Num(60)},
      swr \in {Undefined, Num(0), Num(5), Num(20)} }

\* directive sets that vary the directives canCacheResponse reads
GateDirectives ==
  { Directives(pub, smax, mustrev, priv, nocache, restrict, FALSE, Num(10), Undefined) :
      pub \in BOOLEAN, smax \in {Undefined, Num(0), Num(5)}, mustrev \in BOOLEAN,
      priv \in {NoNames, AllNames, Names(<<"authorization">>)},
      nocache \in {NoNames, AllNames, Names(<<"authorization">>), Names(<<"set-cookie">>)},
      restrict \in {{}, RestrictiveNames} \cup {{r} : r \in RestrictiveNames} }

DirectiveSpace == TimingDirectives \cup GateDirectives

\* text -> directives, for every header value of the model
CacheControlTable ==
  LET pairs == { <<FormatCacheControl(d), d>> : d \in DirectiveSpace }
  IN  [ t \in { p[1] : p \in pairs } |-> (CHOOSE p \in pairs : p[1] = t)[2] ]

\* parseCacheControlHeader (lib/util/cache.js): the directives a header value names
parseCacheControlHeader(header) == CacheControlTable[header]

(***************************************************************************)
(* Strings: the JS string operations the handler uses, on the strings of    *)
(* the model.                                                               *)
(***************************************************************************)
\* Number(s): the numeric strings of the model; every other string is NaN
NumberTable ==
  ( "0" :> Num(0) ) @@ ( "1" :> Num(1) ) @@ ( "2" :> Num(2) ) @@ ( "3" :> Num(3) ) @@
  ( "4" :> Num(4) ) @@ ( "-5" :> Num(-5) ) @@ ( "1.5" :> Frac(1) ) @@ ( "1000" :> Num(1000) )
Number(s) == IF s \in DOMAIN NumberTable THEN NumberTable[s] ELSE NaN

\* i < x, for an integer i and a JS number x (false when x is NaN)
LessThan(i, x) ==
  CASE x.kind = "num" -> i < x.v
    [] x.kind = "frac" -> i <= x.v
    [] OTHER -> FALSE

\* the header values of the model that contain ':', with the text before it
ColonTable ==
  ( "0:x" :> "0" ) @@ ( "length:x" :> "length" ) @@ ( "connection:x" :> "connection" )
\* s.indexOf(':'), -1 when s holds no ':'
IndexOfColon(s) == IF s \in DOMAIN ColonTable THEN Len(ColonTable[s]) ELSE -1
\* s.substring(0, s.indexOf(':'))
SubstringBeforeColon(s) == ColonTable[s]

\* new Date(s).getTime(): the date strings of the model; NaN for an invalid date
DateTable ==
  ( "Thu, 01 Jan 1970 00:00:05 GMT" :> Num(5000) ) @@
  ( "Thu, 01 Jan 1970 00:00:10 GMT" :> Num(10000) ) @@
  ( "Thu, 01 Jan 1970 00:00:30 GMT" :> Num(30000) )
DateGetTime(s) == IF s \in DOMAIN DateTable THEN DateTable[s] ELSE NaN

\* a - b for JS numbers (integers or NaN)
Minus(a, b) == IF a.kind = "num" /\ b.kind = "num" THEN Num(a.v - b.v) ELSE NaN

\* lower-case form of the header names of the model
LowerCaseTable ==
  ( "Cache-Control" :> "cache-control" ) @@ ( "Content-Length" :> "content-length" ) @@
  ( "Vary" :> "vary" ) @@ ( "Expire" :> "expire" ) @@ ( "Expires" :> "expires" ) @@
  ( "Authorization" :> "authorization" ) @@ ( "Connection" :> "connection" ) @@
  ( "Set-Cookie" :> "set-cookie" ) @@ ( "Length" :> "length" )
ToLowerCase(s) == IF s \in DOMAIN LowerCaseTable THEN LowerCaseTable[s] ELSE s

(***************************************************************************)
(* Headers.  rawHeaders is the flat list name, value, name, value, ...;     *)
(* headers is the object util.parseHeaders builds from it.                  *)
(***************************************************************************)
\* util.parseHeaders (lib/core/util.js), for a list without repeated names
parseHeaders(rawHeaders) ==
  LET idx == { i \in 1..Len(rawHeaders) : i % 2 = 1 /\ i + 1 <= Len(rawHeaders) }
  IN  [ k \in { ToLowerCase(rawHeaders[i]) : i \in idx } |->
          rawHeaders[(CHOOSE i \in idx : ToLowerCase(rawHeaders[i]) = k) + 1] ]

\* obj[k] is a non-empty string (ToBoolean of a property read)
Has(obj, k) == k \in DOMAIN obj /\ obj[k] # ""

\* parseVaryHeader (lib/util/cache.js): header names a Vary value lists
VaryTable == ( "accept" :> <<"accept">> ) @@ ( "*" :> <<"*">> )
\* the request's value of every header Vary names and the request carries
parseVaryHeader(varyHeader, reqHeaders) ==
  LET named == { VaryTable[varyHeader][i] : i \in 1..Len(VaryTable[varyHeader]) }
  IN  [ k \in { n \in named : Has(reqHeaders, n) } |-> reqHeaders[k] ]

(***************************************************************************)
(* The pure functions of cache-handler.js.                                  *)
(***************************************************************************)
\* CacheHandler.#getSizeOfBuffers, for an array argument
getSizeOfBuffers(arr) == IF Len(arr) > 0 THEN SumLen(arr) ELSE 0

\* canCacheResponse without the check of the directives that forbid storing
canCacheResponseNoForbid(statusCode, headers, cacheControlDirectives) ==
  IF statusCode # 200 /\ statusCode # 307 THEN FALSE
  ELSE IF /\ ~cacheControlDirectives.public
          /\ ~Truthy(cacheControlDirectives["s-maxage"])
          /\ ~cacheControlDirectives["must-revalidate"]
       THEN FALSE
  ELSE IF "vary" \in DOMAIN headers /\ headers.vary = "*" THEN FALSE
  ELSE TRUE

\* canCacheResponse(statusCode, headers, cacheControlDirectives)
canCacheResponse(statusCode, headers, cacheControlDirectives) ==
  IF statusCode # 200 /\ statusCode # 307 THEN FALSE
  ELSE IF /\ ~cacheControlDirectives.public
          /\ ~Truthy(cacheControlDirectives["s-maxage"])
          /\ ~cacheControlDirectives["must-revalidate"]
       THEN FALSE
  ELSE IF \/ cacheControlDirectives.private.kind = "true"
          \/ cacheControlDirectives["no-cache"].kind = "true"
          \/ cacheControlDirectives["no-store"]
          \/ cacheControlDirectives["no-transform"]
          \/ cacheControlDirectives["must-understand"]
          \/ cacheControlDirectives["proxy-revalidate"]
       THEN FALSE
  ELSE IF "vary" \in DOMAIN headers /\ headers.vary = "*" THEN FALSE
  ELSE IF /\ Has(headers, "authorization")
          /\ \/ /\ cacheControlDirectives["no-cache"].kind = "array"
                /\ \E i \in 1..Len(cacheControlDirectives["no-cache"].names) :
                      cacheControlDirectives["no-cache"].names[i] = "authorization"
             \/ /\ cacheControlDirectives.private.kind = "array"
                /\ \E i \in 1..Len(cacheControlDirectives.private.names) :
                      cacheControlDirectives.private.names[i] = "authorization"
       THEN FALSE
  ELSE TRUE

\* determineStaleAt that returns max-age in seconds
determineStaleAtSeconds(headers, cacheControlDirectives, dateNow) ==
  IF Truthy(cacheControlDirectives["s-maxage"])
    THEN Times1000(cacheControlDirectives["s-maxage"])
  ELSE IF cacheControlDirectives.immutable THEN Num(31536000)
  ELSE IF Truthy(cacheControlDirectives["max-age"])
    THEN cacheControlDirectives["max-age"]
  ELSE Undefined

\* determineStaleAt(headers, cacheControlDirectives); dateNow is what Date.now()
\* returns at line 318
determineStaleAt(headers, cacheControlDirectives, dateNow) ==
  IF Truthy(cacheControlDirectives["s-maxage"])
    THEN Times1000(cacheControlDirectives["s-maxage"])
  ELSE IF cacheControlDirectives.immutable THEN Num(31536000)
  ELSE IF Truthy(cacheControlDirectives["max-age"])
    THEN Times1000(cacheControlDirectives["max-age"])
  ELSE IF Has(headers, "expire")
    THEN Minus(Num(dateNow), DateGetTime(headers.expire))
  ELSE Undefined

\* determineDeleteAt that ignores stale-while-revalidate
determineDeleteAtNoRevalidate(cacheControlDirectives, staleAt) == staleAt

\* determineDeleteAt(cacheControlDirectives, staleAt)
determineDeleteAt(cacheControlDirectives, staleAt) ==
  IF Truthy(cacheControlDirectives["stale-while-revalidate"])
    THEN Times1000(cacheControlDirectives["stale-while-revalidate"])
  ELSE staleAt

\* `name in arr` for an array arr: its index keys, 'length', and the inherited
\* Array.prototype members a header name of the model can spell
InArray(name, arr) ==
  \/ \E i \in 0..(Len(arr) - 1) : name = ToString(i)
  \/ name \in {"length", "constructor", "push", "slice"}

\* rawHeaders.slice(0, end), end possibly negative
Slice0(arr, end) ==
  LET e == IF end < 0 THEN (IF Len(arr) + end < 0 THEN 0 ELSE Len(arr) + end)
           ELSE IF end > Len(arr) THEN Len(arr) ELSE end
  IN  SubSeq(arr, 1, e)

\* arr[i] for a 0-based index i; "undefined" stands for a read past the end
At0(arr, i) == IF i + 1 <= Len(arr) THEN arr[i + 1] ELSE "undefined"

RECURSIVE stripLoop(_, _, _, _, _)
\* the for loop of stripNecessaryHeaders from index i on; stripped is Null
\* while strippedRawHeaders is undefined.  Result: [threw, stripped]
stripLoop(rawHeaders, parsedHeaders, headersToRemove, i, stripped) ==
  IF ~( "length" \in DOMAIN parsedHeaders /\ LessThan(i, Number(parsedHeaders.length)) )
    THEN [threw |-> FALSE, stripped |-> stripped]
  ELSE IF ToString(i) \notin DOMAIN parsedHeaders
    \* header is undefined: header.indexOf is a TypeError
    THEN [threw |-> TRUE, stripped |-> stripped]
  ELSE IF IndexOfColon(parsedHeaders[ToString(i)]) = -1
    \* 'header missing kv delimiter'
    THEN [threw |-> TRUE, stripped |-> stripped]
  ELSE IF InArray(SubstringBeforeColon(parsedHeaders[ToString(i)]), headersToRemove)
    THEN stripLoop(rawHeaders, parsedHeaders, headersToRemove, i + 1,
                   IF stripped = Null THEN Ref(Slice0(rawHeaders, i - 1))
                   ELSE Ref(Append(stripped[1], At0(rawHeaders, i))))
  ELSE stripLoop(rawHeaders, parsedHeaders, headersToRemove, i + 1, stripped)

\* stripNecessaryHeaders(rawHeaders, parsedHeaders, cacheControlDirectives).
\* Result: [threw, rawHeaders]
stripNecessaryHeaders(rawHeaders, parsedHeaders, cacheControlDirectives) ==
  LET headersToRemove ==
        <<"connection">>
        \o (IF cacheControlDirectives["no-cache"].kind = "array"
              THEN cacheControlDirectives["no-cache"].names ELSE <<>>)
        \o (IF cacheControlDirectives.private.kind = "array"
              THEN cacheControlDirectives.private.names ELSE <<>>)
      r == stripLoop(rawHeaders, parsedHeaders, headersToRemove, 0, Null)
  IN  [ threw |-> r.threw,
        rawHeaders |-> IF r.stripped = Null THEN rawHeaders ELSE r.stripped[1] ]

(***************************************************************************)
(* State.                                                                   *)
(***************************************************************************)
VARIABLES
  scenario,    \* the family of inputs this behaviour draws from
  req,         \* CacheHandler.#req
  store,       \* CacheHandler.#opts.store: maxEntrySize, maxEntries, entryCount
  value,       \* CacheHandler.#value: Null or Ref(entry)
  pc,          \* where the upstream is in the response's event sequence
  resp,        \* number of onHeaders events delivered so far
  chunks,      \* number of onData events of the current response
  late,        \* number of events delivered after onError
  delivered,   \* the calls the upstream made on the CacheHandler, with results
  forwarded,   \* the calls made on the wrapped handler (#handler)
  puts,        \* the calls made on store.put: key, value, and the position in
               \* delivered of the onComplete that made the call
  rejections,  \* rejected put promises whose catch callback has not run yet
  entries,     \* reference store: key -> Null or Ref(stored entry)
  streams,     \* reference store: the open write and read streams
  clock,       \* reference store: what Date.now() returns
  lastCall       \* reference store: the call made in the last step, with its result

handlerVars == <<scenario, req, store, value, pc, resp, chunks, late, delivered,
                 forwarded, puts, rejections>>

storeVars == <<entries, streams, clock, lastCall>>

vars == <<handlerVars, storeVars>>

(***************************************************************************)
(* Inputs.                                                                  *)
(***************************************************************************)
Response(statusCode, statusMessage, rawHeaders) ==
  [ statusCode |-> statusCode, statusMessage |-> statusMessage,
    rawHeaders |-> rawHeaders, headers |-> parseHeaders(rawHeaders) ]

\* the two headers onHeaders requires
Basic(cacheControl, contentLength) ==
  <<"Cache-Control", cacheControl, "Content-Length", contentLength>>

PublicMaxAge10 ==
  FormatCacheControl(Directives(TRUE, Undefined, FALSE, NoNames, NoNames, {},
                                FALSE, Num(10), Undefined))
MaxAge10 ==
  FormatCacheControl(Directives(FALSE, Undefined, FALSE, NoNames, NoNames, {},
                                FALSE, Num(10), Undefined))
PrivateMaxAge10 ==
  FormatCacheControl(Directives(FALSE, Undefined, FALSE, AllNames, NoNames, {},
                                FALSE, Num(10), Undefined))
SMaxAge5 ==
  FormatCacheControl(Directives(FALSE, Num(5), FALSE, NoNames, NoNames, {},
                                FALSE, Undefined, Undefined))

\* the plain cacheable response: 200 OK, public, max-age=10, Content-Length: 3
PlainResponse == Response(200, "OK", Basic(PublicMaxAge10, "3"))

\* responses for the size scenario
SizeResponses ==
  { PlainResponse,
    Response(200, "", Basic(PublicMaxAge10, "3")),
    Response(200, "OK", Basic(PublicMaxAge10, "1000")),
    Response(200, "OK", Basic(MaxAge10, "3")) }

\* responses for the event-flow scenario
FlowResponses ==
  { PlainResponse,
    Response(200, "", Basic(PublicMaxAge10, "3")),
    Response(404, "Not Found", Basic(PublicMaxAge10, "3")),
    Response(200, "OK", <<"Content-Length", "3">>),
    Response(200, "OK", <<"Cache-Control", PublicMaxAge10>>),
    Response(200, "OK", Basic(MaxAge10, "3")),
    Response(200, "OK", Basic(PrivateMaxAge10, "3")),
    Response(200, "OK", Basic(SMaxAge5, "3")) }
  \cup { Response(200, "OK", Basic(PublicMaxAge10, cl)) :
           cl \in {"-5", "1.5", "abc", "1000"} }
  \cup { Response(200, "OK", Basic(PublicMaxAge10, "3") \o extra) :
           extra \in { <<"Connection", "close">>,
                       <<"Length", "1">>,
                       <<"Length", "1", "0", "x">>,
                       <<"Length", "1", "0", "0:x">> } }

\* responses that vary what canCacheResponse reads
GateResponses ==
  { Response(200, "OK", Basic(FormatCacheControl(d), "3")) : d \in GateDirectives }
  \cup
  { Response(status, "OK", Basic(cc, "3") \o vary \o auth) :
      status \in {200, 307, 404},
      cc \in { PublicMaxAge10, MaxAge10, SMaxAge5,
               FormatCacheControl(Directives(TRUE, Undefined, FALSE, NoNames,
                  Names(<<"authorization">>), {}, FALSE, Num(10), Undefined)),
               FormatCacheControl(Directives(TRUE, Undefined, FALSE,
                  Names(<<"authorization">>), NoNames, {}, FALSE, Num(10), Undefined)) },
      vary \in { <<>>, <<"Vary", "*">>, <<"Vary", "accept">> },
      auth \in { <<>>, <<"Authorization", "Basic abc">> } }

\* responses that vary what determineStaleAt and determineDeleteAt read
TimingResponses ==
  { Response(200, "OK", Basic(FormatCacheControl(d), "3") \o expire) :
      d \in TimingDirectives,
      expire \in { <<>>,
                   <<"Expire", "Thu, 01 Jan 1970 00:00:05 GMT">>,
                   <<"Expire", "Thu, 01 Jan 1970 00:00:10 GMT">>,
                   <<"Expire", "Thu, 01 Jan 1970 00:00:30 GMT">>,
                   <<"Expire", "never">>,
                   <<"Expires", "Thu, 01 Jan 1970 00:00:30 GMT">> } }

\* responses delivered one after the other to the same handler instance: one
\* that is stored, and ones refused at each early return of onHeaders
ReuseResponses ==
  { PlainResponse,
    Response(404, "Not Found", Basic(PublicMaxAge10, "3")),
    Response(200, "OK", <<"Content-Length", "3">>),
    Response(200, "OK", Basic(PublicMaxAge10, "abc")) }

\* flow: every kind of event, return value and put outcome; size: sizes and
\* counts at the store's caps; gate: what canCacheResponse reads; timing: what
\* determineStaleAt and determineDeleteAt read; reuse: several responses on
\* one instance (only where a completed instance receives further responses)
Scenarios == {"flow", "size", "gate", "timing"}

Responses(sc) ==
  CASE sc = "flow" -> FlowResponses
    [] sc = "size" -> SizeResponses
    [] sc = "gate" -> GateResponses
    [] sc = "reuse" -> ReuseResponses
    [] OTHER -> TimingResponses

\* body chunks
Chunks(sc) == IF sc \in {"size", "reuse"} THEN {"a", "abc"} ELSE {"abc"}

\* rawTrailers arguments of onComplete: null or an array of strings
Trailers(sc) ==
  CASE sc \in {"flow", "size"} -> { Null, Ref(<<>>), Ref(<<"x-t", "1">>) }
    [] sc = "reuse" -> { Ref(<<>>), Ref(<<"x-t", "1">>) }
    [] OTHER -> { Ref(<<>>) }

\* what the wrapped handler's onHeaders / onData return
Returns(sc) == IF sc = "flow" THEN BOOLEAN ELSE {TRUE}

\* what a call of store.put does: return undefined, throw, return a Promise
\* that resolves or rejects, or return a deferred result whose constructor is
\* not named Promise (an instance of a Promise subclass, a thenable) and that
\* rejects
PutOutcomes(sc) ==
  CASE sc = "flow" -> {"void", "throw", "resolve", "reject", "rejectOther"}
    [] sc = "reuse" -> {"void", "reject"}
    [] OTHER -> {"void"}

\* what Date.now() returns at line 102
Nows(sc) == IF sc = "timing" THEN {10000, 20000} ELSE {10000}

\* how far Date.now() at line 318 is past the one at line 102
Drifts(res) == IF Has(res.headers, "expire") THEN {0, 1} ELSE {0}

\* the header size estimate of PlainResponse
PlainSize == SumLen(PlainResponse.rawHeaders) + Len(PlainResponse.statusMessage) + 64

Stores(sc) ==
  IF sc = "size"
    THEN { [maxEntrySize |-> m, maxEntries |-> Infinity, entryCount |-> 0] :
             m \in {Undefined} \cup { Num(PlainSize + k) : k \in {-1, 0, 3, 4, 7} } }
         \cup
         { [maxEntrySize |-> Undefined, maxEntries |-> 1, entryCount |-> n] :
             n \in {0, 1, 2} }
  ELSE IF sc = "reuse"
    THEN { [maxEntrySize |-> Undefined, maxEntries |-> m, entryCount |-> 0] :
             m \in {1, Infinity} }
    ELSE { [maxEntrySize |-> Undefined, maxEntries |-> Infinity, entryCount |-> 0] }

Requests(sc) ==
  { [origin |-> "localhost", path |-> "/", method |-> "GET", headers |-> h] :
      h \in IF sc = "gate"
              THEN { [accept |-> "text/html"],
                     [accept |-> "text/html", authorization |-> "Basic abc"] }
              ELSE { [accept |-> "text/html"] } }

(***************************************************************************)
(* Event records.  Every call carries every field, unused ones at a default.*)
(***************************************************************************)
NoResponse == [statusCode |-> 0, statusMessage |-> "", rawHeaders |-> <<>>, headers |-> <<>>]

HeadersCall(res) ==
  [ev |-> "onHeaders", res |-> res, chunk |-> "", rawTrailers |-> Null, err |-> ""]
DataCall(chunk) ==
  [ev |-> "onData", res |-> NoResponse, chunk |-> chunk, rawTrailers |-> Null, err |-> ""]
CompleteCall(rawTrailers) ==
  [ev |-> "onComplete", res |-> NoResponse, chunk |-> "", rawTrailers |-> rawTrailers, err |-> ""]
ErrorCall(err) ==
  [ev |-> "onError", res |-> NoResponse, chunk |-> "", rawTrailers |-> Null, err |-> err]

\* a call on the CacheHandler that returned ret; entryCount is the store's
\* entryCount when the call was made
Returned(call, ret, entryCount) ==
  [call |-> call, threw |-> FALSE, ret |-> ret, entryCount |-> entryCount]
\* a call on the CacheHandler that threw
Threw(call, entryCount) ==
  [call |-> call, threw |-> TRUE, ret |-> FALSE, entryCount |-> entryCount]
\* a call on the wrapped handler; by is "upstream" for a forwarded event and
\* "store" for the catch callback of a put
Forward(call, ret, by) == [call |-> call, ret |-> ret, by |-> by]

(***************************************************************************)
(* The handler's methods.                                                   *)
(***************************************************************************)
\* CacheHandler.#getMaxEntrySize
getMaxEntrySize(st) ==
  IF st.maxEntrySize.kind = "undefined" THEN Infinity ELSE st.maxEntrySize.v

\* the header size estimate, currentSize of onHeaders
CurrentSize(res) == getSizeOfBuffers(res.rawHeaders) + Len(res.statusMessage) + 64

\* onHeaders, first early return: a header the handler needs is missing
MissingHeaders(headers) ==
  ~Has(headers, "cache-control") \/ ~Has(headers, "content-length")

\* the capacity checks with the entry count compared by > instead of >=
OverCapacityOffByOne(contentLength, currentSize, st) ==
  \/ ~IsInteger(contentLength)
  \/ contentLength.v > getMaxEntrySize(st)
  \/ currentSize > getMaxEntrySize(st)
  \/ st.entryCount > st.maxEntries

\* onHeaders, second early return: the size and capacity checks
OverCapacity(contentLength, currentSize, st) ==
  \/ ~IsInteger(contentLength)
  \/ contentLength.v > getMaxEntrySize(st)
  \/ currentSize > getMaxEntrySize(st)
  \/ st.entryCount >= st.maxEntries

\* the object onHeaders assigns to #value; n is the ordinal of the response
\* (a ghost field: the code has no such field)
NewValue(res, reqHeaders, cacheControlDirectives, staleAt, strippedHeaders, now, n) ==
  [ complete |-> FALSE,
    statusCode |-> res.statusCode,
    statusMessage |-> res.statusMessage,
    rawHeaders |-> strippedHeaders,
    body |-> <<>>,
    vary |-> IF Has(res.headers, "vary")
               THEN Ref(parseVaryHeader(res.headers.vary, reqHeaders)) ELSE Null,
    size |-> CurrentSize(res),
    cachedAt |-> now,
    staleAt |-> now + staleAt.v,
    deleteAt |-> now + determineDeleteAt(cacheControlDirectives, staleAt).v,
    rawTrailers |-> Null,
    resp |-> n ]

\* what onHeaders does before it forwards: [threw, build, entry]
onHeadersOutcome(res, rq, st, now, drift, n) ==
  LET pass == [threw |-> FALSE, build |-> FALSE, entry |-> Null]
      headers == res.headers
  IN
  IF MissingHeaders(headers) THEN pass
  ELSE IF OverCapacity(Number(headers["content-length"]), CurrentSize(res), st) THEN pass
  ELSE
    LET cacheControlDirectives == parseCacheControlHeader(headers["cache-control"])
    IN
    IF ~canCacheResponse(res.statusCode, headers, cacheControlDirectives) THEN pass
    ELSE
      LET staleAt == determineStaleAt(headers, cacheControlDirectives, now + drift)
      IN
      IF ~Truthy(staleAt) THEN pass
      ELSE
        LET strip == stripNecessaryHeaders(res.rawHeaders, headers, cacheControlDirectives)
        IN
        IF strip.threw THEN [threw |-> TRUE, build |-> FALSE, entry |-> Null]
        ELSE [ threw |-> FALSE, build |-> TRUE,
               entry |-> Ref(NewValue(res, rq.headers, cacheControlDirectives, staleAt,
                                      strip.rawHeaders, now, n)) ]

\* the body of onHeaders, whatever the instance received before
onHeaders ==
  /\ \E res \in Responses(scenario), ret \in Returns(scenario), now \in Nows(scenario) :
       \E drift \in Drifts(res) :
         LET o == onHeadersOutcome(res, req, store, now, drift, resp + 1)
         IN  IF o.threw
               THEN /\ pc' = "threw"
                    /\ delivered' = Append(delivered, Threw(HeadersCall(res), store.entryCount))
                    /\ UNCHANGED <<value, forwarded>>
               ELSE /\ pc' = "body"
                    /\ value' = IF o.build THEN o.entry ELSE value
                    /\ forwarded' = Append(forwarded, Forward(HeadersCall(res), ret, "upstream"))
                    /\ delivered' = Append(delivered, Returned(HeadersCall(res), ret, store.entryCount))
  /\ resp' = resp + 1
  /\ chunks' = 0
  /\ UNCHANGED <<scenario, req, store, late, puts, rejections>>
  /\ UNCHANGED storeVars

\* CacheHandler.onHeaders(statusCode, rawHeaders, resume, statusMessage, headers),
\* the first event of a new instance
OnHeaders == pc = "idle" /\ onHeaders

\* CacheHandler.onHeaders called again on an instance whose previous response
\* completed: the headers of the next response
OnHeadersAgain == pc = "done" /\ resp < MaxResponses /\ onHeaders

\* onData that keeps buffering an entry that went over maxEntrySize
onDataValueNoAbandon(v, chunk, maxEntrySize) ==
  IF v = Null THEN v
  ELSE Ref([v[1] EXCEPT !.size = @ + Len(chunk), !.body = Append(@, chunk)])

\* the #value onData leaves behind
onDataValue(v, chunk, maxEntrySize) ==
  IF v = Null THEN v
  ELSE IF v[1].size + Len(chunk) > maxEntrySize THEN Null
  ELSE Ref([v[1] EXCEPT !.size = @ + Len(chunk), !.body = Append(@, chunk)])

\* CacheHandler.onData(chunk)
OnData ==
  /\ \/ pc = "body" /\ chunks < MaxChunks /\ chunks' = chunks + 1 /\ late' = late
     \/ pc = "errored" /\ late < MaxLate /\ late' = late + 1 /\ chunks' = chunks
  /\ \E chunk \in Chunks(scenario), ret \in Returns(scenario) :
       /\ value' = onDataValue(value, chunk, getMaxEntrySize(store))
       /\ forwarded' = Append(forwarded, Forward(DataCall(chunk), ret, "upstream"))
       /\ delivered' = Append(delivered, Returned(DataCall(chunk), ret, store.entryCount))
  /\ UNCHANGED <<scenario, req, store, pc, resp, puts, rejections>>
  /\ UNCHANGED storeVars

\* onComplete: is the completed value handed to store.put?
UnderMaxEntrySize(maxEntrySize, size) == maxEntrySize > size

\* what onComplete does before it forwards: [threw, value, put]
onCompleteOutcome(v, rawTrailers, maxEntrySize) ==
  IF v = Null THEN [threw |-> FALSE, value |-> v, put |-> FALSE]
  ELSE IF rawTrailers = Null
    \* #getSizeOfBuffers(null): arr.length is a TypeError, after lines 170-171
    THEN [ threw |-> TRUE, put |-> FALSE,
           value |-> Ref([v[1] EXCEPT !.complete = TRUE, !.rawTrailers = Null]) ]
  ELSE
    LET done == [v[1] EXCEPT !.complete = TRUE, !.rawTrailers = rawTrailers,
                             !.size = @ + getSizeOfBuffers(rawTrailers[1])]
    IN  [ threw |-> FALSE, value |-> Ref(done),
          put |-> UnderMaxEntrySize(maxEntrySize, done.size) ]

\* result && result.constructor.name === 'Promise': onComplete attaches its
\* catch callback to the result of the put
CatchAttached(outcome) == outcome \in {"resolve", "reject"}

\* CacheStore.put: a put that succeeds adds an entry
StorePut(st, outcome) ==
  IF outcome \in {"void", "resolve"} /\ st.entryCount < Infinity
    THEN [st EXCEPT !.entryCount = @ + 1] ELSE st

\* CacheHandler.onComplete(rawTrailers)
OnComplete ==
  /\ \/ pc = "body" /\ late' = late
     \/ pc = "errored" /\ late < MaxLate /\ late' = late + 1
  /\ \E rawTrailers \in Trailers(scenario) :
       LET o == onCompleteOutcome(value, rawTrailers, getMaxEntrySize(store))
       IN  \E outcome \in IF o.put THEN PutOutcomes(scenario) ELSE {"void"} :
             LET threw == o.threw \/ (o.put /\ outcome = "throw")
             IN  /\ value' = o.value
                 /\ puts' = IF o.put
                              THEN Append(puts, [key |-> req, value |-> o.value[1],
                                                 at |-> Len(delivered) + 1,
                                                 outcome |-> outcome])
                              ELSE puts
                 /\ store' = IF o.put THEN StorePut(store, outcome) ELSE store
                 /\ rejections' = IF o.put /\ CatchAttached(outcome) /\ outcome = "reject"
                                    THEN rejections + 1 ELSE rejections
                 /\ IF threw
                      THEN /\ delivered' = Append(delivered, Threw(CompleteCall(rawTrailers), store.entryCount))
                           /\ forwarded' = forwarded
                           /\ pc' = IF pc = "body" THEN "threw" ELSE pc
                      ELSE /\ delivered' = Append(delivered,
                                                  Returned(CompleteCall(rawTrailers), FALSE, store.entryCount))
                           /\ forwarded' = Append(forwarded,
                                 Forward(CompleteCall(rawTrailers), FALSE, "upstream"))
                           /\ pc' = IF pc = "body" THEN "done" ELSE pc
  /\ UNCHANGED <<scenario, req, resp, chunks>>
  /\ UNCHANGED storeVars

\* onError that keeps the provisional entry
onErrorValueKept(v) == v

\* the #value onError leaves behind
onErrorValue(v) == Null

\* CacheHandler.onError(err)
OnError ==
  /\ pc \in {"idle", "body", "threw"}
  /\ \E err \in {"ECONNRESET"} :
       /\ value' = onErrorValue(value)
       /\ forwarded' = Append(forwarded, Forward(ErrorCall(err), FALSE, "upstream"))
       /\ delivered' = Append(delivered, Returned(ErrorCall(err), FALSE, store.entryCount))
  /\ pc' = "errored"
  /\ UNCHANGED <<scenario, req, store, resp, chunks, late, puts, rejections>>
  /\ UNCHANGED storeVars

\* the catch callback onComplete attaches to a rejected put Promise
PutRejected ==
  /\ rejections > 0
  /\ rejections' = rejections - 1
  /\ forwarded' = Append(forwarded, Forward(ErrorCall("put rejected"), FALSE, "store"))
  /\ UNCHANGED <<scenario, req, store, value, pc, resp, chunks, late, delivered, puts>>
  /\ UNCHANGED storeVars

(***************************************************************************)
(* The reference store (lib/cache/memory-cache-store.js), as the store       *)
(* tests drive it: createWriteStream(request, value) and get(request)        *)
(* return a stream or undefined.  An entry is kept per cache key (origin,    *)
(* path, method); the vary snapshot stored with the value is compared at     *)
(* lookup.  Each key has one lock, held by the stream that is open on it.    *)
(***************************************************************************)
\* the cache key of a request
KeyOf(request) ==
  [origin |-> request.origin, path |-> request.path, method |-> request.method]

\* request headers: three that differ in a header a vary snapshot names or in
\* one it does not name, and one without the named header
HelloA == [other |-> "a"] @@ ("some-header" :> "hello world")
HelloB == [other |-> "b"] @@ ("some-header" :> "hello world")
AnotherA == [other |-> "a"] @@ ("some-header" :> "another-value")
OnlyA == [other |-> "a"]

StoreRequest(path, headers) ==
  [origin |-> "localhost", path |-> path, method |-> "GET", headers |-> headers]

StoreValue(vary, deleteAt) ==
  [ statusCode |-> 200, statusMessage |-> "", rawHeaders |-> <<"1", "2", "3">>,
    vary |-> vary, cachedAt |-> 0, staleAt |-> 1, deleteAt |-> deleteAt ]

\* the vary snapshot of the store tests
HelloSnapshot == Ref("some-header" :> "hello world")

\* locks: two keys and the streams on them; expiry: lookups before and after
\* staleAt and deleteAt; vary: requests against vary snapshots; roundtrip:
\* bodies of several chunks, written and read back
StoreScenarios == {"locks", "expiry", "vary", "roundtrip"}

\* requests the store is asked about
StoreRequests(sc) ==
  CASE sc = "locks" -> { StoreRequest(p, HelloA) : p \in {"/", "/asd"} }
    [] sc = "expiry" -> { StoreRequest("/", HelloA) }
    [] sc = "vary" -> { StoreRequest("/", h) : h \in {HelloA, HelloB, AnotherA, OnlyA} }
    [] OTHER -> { StoreRequest("/", HelloA), StoreRequest("/", AnotherA),
                  StoreRequest("/asd", HelloA) }

\* requests entries are written under
WriteRequests(sc) ==
  IF sc = "roundtrip" THEN { StoreRequest("/", HelloA), StoreRequest("/", AnotherA) }
  ELSE StoreRequests(sc)

StoreKeys == { KeyOf(StoreRequest(p, HelloA)) : p \in {"/", "/asd"} }

\* the vary snapshot taken of a request: its value of some-header
Snapshots(request) ==
  IF "some-header" \in DOMAIN request.headers
    THEN { Ref("some-header" :> request.headers["some-header"]) } ELSE {}

\* values handed to createWriteStream for a request: without a vary snapshot
\* or with the snapshot of the request, with deleteAt at or after staleAt
StoreValues(sc, request) ==
  CASE sc = "locks" -> { StoreValue(Null, 2) }
    [] sc = "expiry" -> { StoreValue(Null, d) : d \in {1, 2} }
    [] sc = "vary" -> { StoreValue(v, 2) : v \in {Null} \cup Snapshots(request) }
    [] OTHER -> { StoreValue(Null, 1) } \cup { StoreValue(v, 2) : v \in Snapshots(request) }

\* body chunks written to a write stream
StoreChunks(sc) == IF sc = "roundtrip" THEN {"asd", "123"} ELSE {"asd"}

\* does time pass in the scenario?
TimePasses(sc) == sc \in {"expiry", "roundtrip"}

\* placeholders for the value and the request of a record that has none
NoValue ==
  [ statusCode |-> 0, statusMessage |-> "", rawHeaders |-> <<>>, vary |-> Null,
    cachedAt |-> 0, staleAt |-> 0, deleteAt |-> 0 ]
NoRequest == StoreRequest("", <<>>)

\* a stored entry: the value, the body written so far and the lock; and, to
\* compare lookups with, the request it was written under, the chunks written
\* to its stream and the time the stream ended (-1 while it is open)
Stored(val, body, lock, request, wrote, endedAt) ==
  [ value |-> val, body |-> body, lock |-> lock,
    request |-> request, wrote |-> wrote, endedAt |-> endedAt ]

\* an open stream on the key of request; a read stream holds the chunks it
\* still has to deliver
Stream(kind, request, body) == [kind |-> kind, request |-> request, body |-> body]

\* the record of a createWriteStream or get call: the entry and the open
\* streams of the key it found, and its result (ok, and for get the response
\* and the body to deliver)
Operation(op, request, now, had, open, ok, val, body) ==
  [ op |-> op, request |-> request, now |-> now, had |-> had, open |-> open,
    ok |-> ok, value |-> val, body |-> body ]

\* no call was made in the last step
NoOperation == Operation("", NoRequest, 0, Null, {}, FALSE, NoValue, <<>>)

\* the kinds of the streams open on key k
OpenOn(k) ==
  { streams[i].kind : i \in { j \in 1..Len(streams) : KeyOf(streams[j].request) = k } }

\* the sequence s without its element at position i
Without(s, i) == SubSeq(s, 1, i - 1) \o SubSeq(s, i + 1, Len(s))

\* vary matching that a header the request lacks does not fail
VaryMatchesIfPresent(vary, headers) ==
  vary = Null \/ \A h \in DOMAIN vary[1] : h \in DOMAIN headers => headers[h] = vary[1][h]

\* vary matching: every header of the snapshot has the same value in the request
VaryMatches(vary, headers) ==
  vary = Null \/ \A h \in DOMAIN vary[1] : h \in DOMAIN headers /\ headers[h] = vary[1][h]

\* expiry that drops an entry as soon as it is stale
ExpiredAtStale(val, now) == now > val.staleAt

\* an entry whose deleteAt has passed is treated as absent
Expired(val, now) == now > val.deleteAt

\* a write lock that a read in progress does not block
WriteBlockedByWriter(lock) == lock = "write"

\* the write lock cannot be taken while the key is locked for reading or writing
WriteBlocked(lock) == lock # "none"

\* the read lock cannot be taken while the key is locked
ReadBlocked(lock) == lock # "none"

\* a write that puts the chunk in front of the body
WrittenFirst(body, chunk) == <<chunk>> \o body

\* the body after a chunk was written
Written(body, chunk) == Append(body, chunk)

\* createWriteStream(request, value): undefined when the key is locked
CreateWriteStream ==
  \E request \in WriteRequests(scenario) : \E val \in StoreValues(scenario, request) :
    LET k == KeyOf(request)
        had == entries[k]
        blocked == had # Null /\ WriteBlocked(had[1].lock)
    IN  /\ lastCall' = Operation("createWriteStream", request, clock, had, OpenOn(k),
                                ~blocked, val, <<>>)
        /\ IF blocked
             THEN UNCHANGED <<entries, streams>>
             ELSE /\ entries' = [entries EXCEPT
                                   ![k] = Ref(Stored(val, <<>>, "write", request, <<>>, -1))]
                  /\ streams' = Append(streams, Stream("write", request, <<>>))
        /\ UNCHANGED clock
        /\ UNCHANGED handlerVars

\* stream.write(chunk) on an open write stream
Write ==
  \E i \in 1..Len(streams), chunk \in StoreChunks(scenario) :
    LET k == KeyOf(streams[i].request)
    IN  /\ streams[i].kind = "write"
        /\ Len(entries[k][1].wrote) < MaxBody
        /\ entries' = [entries EXCEPT
                         ![k] = Ref([@[1] EXCEPT !.body = Written(@, chunk),
                                                 !.wrote = Append(@, chunk)])]
        /\ lastCall' = NoOperation
        /\ UNCHANGED <<streams, clock>>
        /\ UNCHANGED handlerVars

\* stream.end() on an open write stream: the body is fully written, the lock
\* is released
End ==
  \E i \in 1..Len(streams) :
    LET k == KeyOf(streams[i].request)
    IN  /\ streams[i].kind = "write"
        /\ entries' = [entries EXCEPT
                         ![k] = Ref([@[1] EXCEPT !.lock = "none", !.endedAt = clock])]
        /\ streams' = Without(streams, i)
        /\ lastCall' = NoOperation
        /\ UNCHANGED clock
        /\ UNCHANGED handlerVars

\* get(request): undefined when the key has no entry, the entry's deleteAt has
\* passed, its vary snapshot does not match the request, or the key is locked
Get ==
  \E request \in StoreRequests(scenario) :
    LET k == KeyOf(request)
        had == entries[k]
        found == /\ had # Null
                 /\ ~Expired(had[1].value, clock)
                 /\ VaryMatches(had[1].value.vary, request.headers)
                 /\ ~ReadBlocked(had[1].lock)
    IN  /\ IF found
             THEN /\ entries' = [entries EXCEPT ![k] = Ref([@[1] EXCEPT !.lock = "read"])]
                  /\ streams' = Append(streams, Stream("read", request, had[1].body))
                  /\ lastCall' = Operation("get", request, clock, had, OpenOn(k),
                                         TRUE, had[1].value, had[1].body)
             ELSE /\ UNCHANGED <<entries, streams>>
                  /\ lastCall' = Operation("get", request, clock, had, OpenOn(k),
                                         FALSE, NoValue, <<>>)
        /\ UNCHANGED clock
        /\ UNCHANGED handlerVars

\* a read stream delivers its next chunk ('data'), or ends and releases the
\* lock once every chunk was delivered ('end')
Read ==
  \E i \in 1..Len(streams) :
    LET k == KeyOf(streams[i].request)
    IN  /\ streams[i].kind = "read"
        /\ \/ /\ streams[i].body # <<>>
              /\ streams' = [streams EXCEPT ![i].body = Tail(@)]
              /\ UNCHANGED entries
           \/ /\ streams[i].body = <<>>
              /\ streams' = Without(streams, i)
              /\ entries' = [entries EXCEPT ![k] = Ref([@[1] EXCEPT !.lock = "none"])]
        /\ lastCall' = NoOperation
        /\ UNCHANGED clock
        /\ UNCHANGED handlerVars

\* time passes
Tick ==
  /\ TimePasses(scenario)
  /\ clock < MaxTime
  /\ clock' = clock + 1
  /\ lastCall' = NoOperation
  /\ UNCHANGED <<entries, streams>>
  /\ UNCHANGED handlerVars

\* the reference store after construction: no entry, no stream
StoreConstructed ==
  /\ entries = [k \in StoreKeys |-> Null]
  /\ streams = <<>>
  /\ clock = 0
  /\ lastCall = NoOperation

\* the handler after construction, for the inputs of scenario sc
HandlerConstructed(sc) ==
  /\ scenario = sc
  /\ req \in Requests(sc)
  /\ store \in Stores(sc)
  /\ value = Null
  /\ pc = "idle"
  /\ resp = 0
  /\ chunks = 0
  /\ late = 0
  /\ delivered = <<>>
  /\ forwarded = <<>>
  /\ puts = <<>>
  /\ rejections = 0

Init ==
  /\ \E sc \in Scenarios : HandlerConstructed(sc)
  /\ StoreConstructed

Next == OnHeaders \/ OnData \/ OnComplete \/ OnError \/ PutRejected

Spec == Init /\ [][Next]_vars

\* the reference store driven on its own, beside a handler that receives nothing
StoreInit ==
  /\ \E sc \in StoreScenarios :
       /\ scenario = sc
       /\ req = StoreRequest("/", HelloA)
       /\ store = [maxEntrySize |-> Undefined, maxEntries |-> Infinity, entryCount |-> 0]
       /\ value = Null /\ pc = "idle" /\ resp = 0 /\ chunks = 0 /\ late = 0
       /\ delivered = <<>> /\ forwarded = <<>> /\ puts = <<>> /\ rejections = 0
  /\ StoreConstructed

StoreNext == CreateWriteStream \/ Write \/ End \/ Get \/ Read \/ Tick

SpecStore == StoreInit /\ [][StoreNext]_vars

\* one handler instance that receives up to MaxResponses responses
ReuseInit == HandlerConstructed("reuse") /\ StoreConstructed

ReuseNext == Next \/ OnHeadersAgain

SpecReuse == ReuseInit /\ [][ReuseNext]_vars

(***************************************************************************)
(* Reading the logs.                                                        *)
(***************************************************************************)
\* the ordinal of the response the call at position i of delivered belongs to
Ordinal(i) == Cardinality({ j \in 1..i : delivered[j].call.ev = "onHeaders" })

\* positions of the onHeaders calls
HeadersAt == { i \in 1..Len(delivered) : delivered[i].call.ev = "onHeaders" }

\* the response whose onHeaders built the entry e
ResponseOf(e) ==
  delivered[CHOOSE i \in HeadersAt : Ordinal(i) = e.resp].call.res

\* the store.put calls whose entry was built for response n
PutsFor(n) == { k \in 1..Len(puts) : puts[k].value.resp = n }

\* the calls the CacheHandler forwarded
Upstream == SelectSeq(forwarded, LAMBDA f : f.by = "upstream")

\* the call at position j of delivered returned normally and reached the wrapped
\* handler as the next call, with the same arguments and return value
ForwardedAt(j) ==
  LET k == Cardinality({ i \in 1..j : ~delivered[i].threw })
  IN  /\ ~delivered[j].threw
      /\ k <= Len(Upstream)
      /\ Upstream[k].call = delivered[j].call
      /\ Upstream[k].ret = delivered[j].ret

\* raw header bytes + status message length + 64
HeaderEstimate(res) == SumLen(res.rawHeaders) + Len(res.statusMessage) + 64

\* the store's maxEntrySize (it never changes)
MaxEntrySize == IF store.maxEntrySize.kind = "undefined" THEN Infinity ELSE store.maxEntrySize.v

\* no entry built for response n is held or was handed to store.put
NeverStored(n) == PutsFor(n) = {} /\ (value = Null \/ value[1].resp # n)

(***************************************************************************)
(* C1                                                                       *)
(***************************************************************************)
\* C1: every onHeaders, onData and onError event delivered to the CacheHandler
\* reaches the wrapped handler exactly once, in arrival order, with the same
\* arguments, and the call returns what the wrapped handler returned.
C1_EventsForwarded ==
  LET kinds == {"onHeaders", "onData", "onError"}
      D == SelectSeq(delivered, LAMBDA e : e.call.ev \in kinds)
      F == SelectSeq(Upstream, LAMBDA f : f.call.ev \in kinds)
  IN  /\ Len(F) = Len(D)
      /\ \A i \in 1..Len(D) :
           ~D[i].threw /\ F[i].call = D[i].call /\ F[i].ret = D[i].ret

(***************************************************************************)
(* C2                                                                       *)
(***************************************************************************)
\* C2: every onComplete(rawTrailers) delivered to the CacheHandler reaches the
\* wrapped handler's onComplete with the same rawTrailers.
C2_CompletionForwarded ==
  LET D == SelectSeq(delivered, LAMBDA e : e.call.ev = "onComplete")
      F == SelectSeq(Upstream, LAMBDA f : f.call.ev = "onComplete")
  IN  /\ Len(F) = Len(D)
      /\ \A i \in 1..Len(D) :
           ~D[i].threw /\ F[i].call.rawTrailers = D[i].call.rawTrailers

(***************************************************************************)
(* C3                                                                       *)
(***************************************************************************)
\* C3: once onError was delivered the provisional entry is gone, no store.put
\* for that response is issued by a later event, and the error was forwarded
\* to the wrapped handler's onError.
C3_ErrorDiscards ==
  /\ pc = "errored" => value = Null
  /\ \A i \in 1..Len(delivered) :
       delivered[i].call.ev = "onError" =>
         /\ ForwardedAt(i)
         /\ \A k \in PutsFor(Ordinal(i)) : puts[k].at < i

\* an entry was being buffered when onError arrived, and a completion with
\* trailers followed the error
C3_Witness ==
  /\ Len(delivered) = 4
  /\ store.maxEntrySize.kind = "undefined" /\ store.entryCount < store.maxEntries
  /\ delivered[1].call.res = PlainResponse
  /\ delivered[2].call.chunk = "abc"
  /\ delivered[3].call.ev = "onError"
  /\ delivered[4].call.ev = "onComplete" /\ delivered[4].call.rawTrailers = Ref(<<"x-t", "1">>)

(***************************************************************************)
(* C4                                                                       *)
(***************************************************************************)
\* a JS number x is greater than the integer m
Exceeds(x, m) == (x.kind = "num" /\ x.v > m) \/ (x.kind = "frac" /\ x.v >= m)

\* C4: a response whose Content-Length or header size estimate exceeds
\* maxEntrySize, or that arrives while entryCount >= maxEntries, is never
\* handed to store.put.
C4_OverCapacityNeverPut ==
  \A i \in HeadersAt :
    LET res == delivered[i].call.res
    IN  ( \/ /\ "content-length" \in DOMAIN res.headers
             /\ Exceeds(Number(res.headers["content-length"]), MaxEntrySize)
          \/ HeaderEstimate(res) > MaxEntrySize
          \/ delivered[i].entryCount >= store.maxEntries )
        => PutsFor(Ordinal(i)) = {}

\* a response with Content-Length 1000 met a smaller maxEntrySize that its
\* headers fit in, and its body and completion followed
C4_Witness ==
  /\ pc = "done" /\ Len(delivered) = 3
  /\ store.maxEntrySize = Num(PlainSize + 7)
  /\ delivered[1].call.res = Response(200, "OK", Basic(PublicMaxAge10, "1000"))
  /\ delivered[2].call.chunk = "abc"
  /\ delivered[3].call.rawTrailers = Ref(<<>>)

(***************************************************************************)
(* C5                                                                       *)
(***************************************************************************)
RECURSIVE BodyBytes(_, _)
\* bytes of the onData chunks of delivered at positions i..k
BodyBytes(i, k) ==
  IF i > k THEN 0
  ELSE (IF delivered[i].call.ev = "onData" THEN Len(delivered[i].call.chunk) ELSE 0)
       + BodyBytes(i + 1, k)

\* the chunk at position k, of a response still streaming its body, takes the
\* cumulative size of the response over maxEntrySize
Overflows(k) ==
  /\ delivered[k].call.ev = "onData"
  /\ Ordinal(k) >= 1
  /\ LET h == CHOOSE i \in HeadersAt : Ordinal(i) = Ordinal(k)
     IN  /\ \A j \in (h + 1)..k : delivered[j].call.ev = "onData"
         /\ HeaderEstimate(delivered[h].call.res) + BodyBytes(h, k) > MaxEntrySize

\* C5: once a chunk takes the cumulative size over maxEntrySize the entry is
\* gone for good (nothing is appended, no store.put for the response), and
\* that chunk and every later event are forwarded without an error.
C5_OverflowAbandons ==
  \A k \in 1..Len(delivered) :
    Overflows(k) =>
      /\ NeverStored(Ordinal(k))
      /\ \A j \in k..Len(delivered) : ForwardedAt(j)

\* an entry took "abc" up to exactly maxEntrySize, overflowed on "a", and the
\* response completed
C5_Witness ==
  /\ pc = "done" /\ Len(delivered) = 4
  /\ store.maxEntrySize = Num(PlainSize + 3)
  /\ delivered[1].call.res = PlainResponse
  /\ delivered[2].call.chunk = "abc"
  /\ delivered[3].call.chunk = "a"
  /\ delivered[4].call.rawTrailers = Ref(<<"x-t", "1">>)

(***************************************************************************)
(* C6                                                                       *)
(***************************************************************************)
\* C6: an onComplete that finds a provisional entry hands it to store.put if
\* and only if its total size is <= maxEntrySize (stated for the completions
\* that carry a trailer list, whose total size onComplete computes).
C6_PutIffWithinMax ==
  (value # Null /\ value[1].complete /\ value[1].rawTrailers # Null) =>
    ( PutsFor(value[1].resp) # {} <=> value[1].size <= MaxEntrySize )

(***************************************************************************)
(* C7                                                                       *)
(***************************************************************************)
\* C7: every entry handed to store.put has cachedAt <= staleAt <= deleteAt.
C7_TimestampsOrdered ==
  \A k \in 1..Len(puts) :
    /\ puts[k].value.cachedAt <= puts[k].value.staleAt
    /\ puts[k].value.staleAt <= puts[k].value.deleteAt

(***************************************************************************)
(* C8                                                                       *)
(***************************************************************************)
\* the directive k of d is a header-name list that names authorization
ListsAuthorization(d, k) ==
  d[k].kind = "array" /\ \E i \in 1..Len(d[k].names) : d[k].names[i] = "authorization"

\* C8: an entry is handed to store.put for a request that bears Authorization
\* only if the response's Cache-Control names authorization in a no-cache or
\* private header-name list.
C8_AuthorizationGate ==
  \A k \in 1..Len(puts) :
    Has(puts[k].key.headers, "authorization") =>
      LET d == parseCacheControlHeader(ResponseOf(puts[k].value).headers["cache-control"])
      IN  ListsAuthorization(d, "no-cache") \/ ListsAuthorization(d, "private")

(***************************************************************************)
(* C9                                                                       *)
(***************************************************************************)
\* one of the conditions of C9 holds of the response
NotStorable(res) ==
  \/ res.statusCode \notin {200, 307}
  \/ ~Has(res.headers, "cache-control")
  \/ LET d == parseCacheControlHeader(res.headers["cache-control"])
     IN  \/ ~d.public /\ d["s-maxage"].kind # "num" /\ ~d["must-revalidate"]
         \/ d.private.kind = "true"
         \/ d["no-cache"].kind = "true"
         \/ \E r \in RestrictiveNames : d[r]
  \/ ("vary" \in DOMAIN res.headers /\ res.headers.vary = "*")

\* C9: a response with a status other than 200 and 307, with none of public,
\* s-maxage, must-revalidate, with an unqualified private or no-cache, with
\* no-store, no-transform, must-understand or proxy-revalidate, or with
\* Vary: *, is never handed to store.put, and its events pass through.
C9_NotStorableNeverPut ==
  \A i \in HeadersAt :
    NotStorable(delivered[i].call.res) =>
      /\ NeverStored(Ordinal(i))
      /\ \A j \in i..Len(delivered) : Ordinal(j) = Ordinal(i) => ForwardedAt(j)

\* a 200 response with public, no-store, max-age=10 was delivered with its
\* body and completion
C9_Witness ==
  /\ pc = "done" /\ Len(delivered) = 3
  /\ delivered[1].call.res =
       Response(200, "OK", Basic(FormatCacheControl(
         Directives(TRUE, Undefined, FALSE, NoNames, NoNames, {"no-store"},
                    FALSE, Num(10), Undefined)), "3"))
  /\ delivered[2].call.chunk = "abc"

(***************************************************************************)
(* C10                                                                      *)
(***************************************************************************)
\* the chunks of the onData calls of delivered, in order
ChunksDelivered ==
  LET D == SelectSeq(delivered, LAMBDA e : e.call.ev = "onData")
  IN  [ i \in 1..Len(D) |-> D[i].call.chunk ]

\* a status-200 response with Cache-Control cc, an integer Content-Length and
\* no Vary: * was delivered, then a body of that length, then a completion
\* that returned, and no put failed
CompletedWith(cc) ==
  /\ pc = "done" /\ rejections = 0
  /\ \A f \in 1..Len(forwarded) : forwarded[f].by = "upstream"
  /\ delivered[1].call.res.statusCode = 200
  /\ Has(delivered[1].call.res.headers, "cache-control")
  /\ delivered[1].call.res.headers["cache-control"] = cc
  /\ ~("vary" \in DOMAIN delivered[1].call.res.headers
        /\ delivered[1].call.res.headers.vary = "*")
  /\ Has(delivered[1].call.res.headers, "content-length")
  /\ Number(delivered[1].call.res.headers["content-length"]) =
       Num(BodyBytes(1, Len(delivered)))
  /\ BodyBytes(1, Len(delivered)) <= MaxEntrySize

\* an entry with a freshness of n seconds, no stale window and the delivered
\* chunks as body was handed to store.put
CommittedFor(n) ==
  \E k \in 1..Len(puts) :
    /\ puts[k].value.staleAt = puts[k].value.cachedAt + n * 1000
    /\ puts[k].value.deleteAt = puts[k].value.staleAt
    /\ puts[k].value.body = ChunksDelivered

MaxAgeOnly(n) ==
  FormatCacheControl(Directives(FALSE, Undefined, FALSE, NoNames, NoNames, {},
                                FALSE, Num(n), Undefined))
PublicMaxAge(n) ==
  FormatCacheControl(Directives(TRUE, Undefined, FALSE, NoNames, NoNames, {},
                                FALSE, Num(n), Undefined))

\* bytes of a rawTrailers argument
TrailerBytes(rawTrailers) == IF rawTrailers = Null THEN 0 ELSE SumLen(rawTrailers[1])

\* the response arrived at a store that was not full, and its total size is
\* below maxEntrySize
CapsNotReached ==
  /\ delivered[1].entryCount < store.maxEntries
  /\ HeaderEstimate(delivered[1].call.res) + BodyBytes(1, Len(delivered))
       + TrailerBytes(delivered[Len(delivered)].call.rawTrailers) < MaxEntrySize

\* C10 as stated: Cache-Control: max-age=N alone gets the response committed
\* (checked where no cap is reached either).
C10_MaxAgeCommitted ==
  \A n \in {10, 60} :
    (CompletedWith(MaxAgeOnly(n)) /\ CapsNotReached) => CommittedFor(n)

\* C10, amended: with Cache-Control: public, max-age=N, no Vary: *, a store
\* that is not full and a total size below maxEntrySize, the response is
\* committed with
\* staleAt = cachedAt + N * 1000, deleteAt = staleAt and the chunks as body.
C10_PublicMaxAgeCommitted ==
  \A n \in {10, 60} :
    (CompletedWith(PublicMaxAge(n)) /\ CapsNotReached) => CommittedFor(n)

\* public, max-age=10, Content-Length: 3, body "abc", completed
C10_Witness ==
  /\ CompletedWith(PublicMaxAge(10))
  /\ delivered[1].call.res = PlainResponse
  /\ ChunksDelivered = <<"abc">>
  /\ CommittedFor(10)

(***************************************************************************)
(* C11                                                                      *)
(***************************************************************************)
\* the directives of the response whose onHeaders built the entry e
DirectivesOf(e) == parseCacheControlHeader(ResponseOf(e).headers["cache-control"])

\* C11 as stated: every entry handed to store.put has
\* deleteAt = cachedAt + stale-while-revalidate * 1000 when the directive is
\* present (with any value), and deleteAt = staleAt otherwise.
C11_DeleteAtWhenPresent ==
  \A k \in 1..Len(puts) :
    LET e == puts[k].value
        swr == DirectivesOf(e)["stale-while-revalidate"]
    IN  IF swr.kind = "num" THEN e.deleteAt = e.cachedAt + swr.v * 1000
        ELSE e.deleteAt = e.staleAt

\* C11, amended: every entry handed to store.put has
\* deleteAt = cachedAt + stale-while-revalidate * 1000 when the directive is
\* present with a value other than 0, and deleteAt = staleAt when it is absent
\* or 0.
C11_DeleteAtWhenNonZero ==
  \A k \in 1..Len(puts) :
    LET e == puts[k].value
        swr == DirectivesOf(e)["stale-while-revalidate"]
    IN  IF swr.kind = "num" /\ swr.v # 0 THEN e.deleteAt = e.cachedAt + swr.v * 1000
        ELSE e.deleteAt = e.staleAt

\* s-maxage=5, stale-while-revalidate=20 was committed with
\* staleAt = cachedAt + 5000 and deleteAt = cachedAt + 20000
C11_Witness ==
  \E k \in 1..Len(puts) :
    /\ ResponseOf(puts[k].value).headers["cache-control"] =
         FormatCacheControl(Directives(FALSE, Num(5), FALSE, NoNames, NoNames, {},
                                       FALSE, Undefined, Num(20)))
    /\ puts[k].value.staleAt = puts[k].value.cachedAt + 5000
    /\ puts[k].value.deleteAt = puts[k].value.cachedAt + 20000

(***************************************************************************)
(* Reading the reference store's last call.                                 *)
(***************************************************************************)
\* the entry the last call found under its key (when it found one)
Had == lastCall.had[1]

\* every header the snapshot of val names has the snapshot's value in request
SameVaryValues(val, request) ==
  val.vary # Null =>
    \A h \in DOMAIN val.vary[1] :
      h \in DOMAIN request.headers /\ request.headers[h] = val.vary[1][h]

\* the number of streams open on key k
StreamsOn(k) == Cardinality({ i \in 1..Len(streams) : KeyOf(streams[i].request) = k })

(***************************************************************************)
(* C12                                                                      *)
(***************************************************************************)
\* C12: while a write stream is open on a key, get and createWriteStream for
\* the key return undefined; once it ended get succeeds; while a read stream
\* is open createWriteStream returns undefined; once no stream is open
\* createWriteStream succeeds; and a key never has more than one open stream.
C12_ExclusiveStreams ==
  /\ (lastCall.op \in {"get", "createWriteStream"} /\ "write" \in lastCall.open)
       => ~lastCall.ok
  /\ (lastCall.op = "createWriteStream" /\ "read" \in lastCall.open) => ~lastCall.ok
  /\ ( /\ lastCall.op = "get" /\ lastCall.had # Null /\ lastCall.open = {}
       /\ Had.value.vary = Null /\ lastCall.now <= Had.value.deleteAt )
       => lastCall.ok
  /\ (lastCall.op = "createWriteStream" /\ lastCall.open = {}) => lastCall.ok
  /\ \A k \in StoreKeys : StreamsOn(k) <= 1

\* createWriteStream was refused on a key whose entry of two chunks is being
\* read, one chunk delivered, while a write stream is open on the other key
C12_Witness ==
  /\ lastCall.op = "createWriteStream" /\ ~lastCall.ok /\ lastCall.open = {"read"}
  /\ Len(Had.body) = 2
  /\ \E i \in 1..Len(streams) :
       /\ streams[i].kind = "read" /\ streams[i].request.path = lastCall.request.path
       /\ Len(streams[i].body) = 1
  /\ \E i \in 1..Len(streams) :
       streams[i].kind = "write" /\ streams[i].request.path # lastCall.request.path

(***************************************************************************)
(* C13                                                                      *)
(***************************************************************************)
\* C13: a get after the entry's deleteAt returns undefined; a get after
\* staleAt and not after deleteAt (of an entry no stream is open on and whose
\* vary snapshot the request agrees with) returns the entry.
C13_ExpiryAtDeleteAt ==
  (lastCall.op = "get" /\ lastCall.had # Null) =>
    /\ lastCall.now > Had.value.deleteAt => ~lastCall.ok
    /\ ( /\ lastCall.open = {} /\ SameVaryValues(Had.value, lastCall.request)
         /\ lastCall.now > Had.value.staleAt /\ lastCall.now <= Had.value.deleteAt )
         => (lastCall.ok /\ lastCall.value = Had.value)

\* an entry with staleAt 1 and deleteAt 2 was returned by a get at time 2
C13_Witness ==
  /\ lastCall.op = "get" /\ lastCall.ok /\ lastCall.now = 2
  /\ lastCall.value.staleAt = 1 /\ lastCall.value.deleteAt = 2
  /\ Len(lastCall.body) = 1

(***************************************************************************)
(* C14                                                                      *)
(***************************************************************************)
\* C14: for an entry stored with a vary snapshot (fully written, not read, not
\* expired), a get with the entry's origin, path and method returns it if and
\* only if every header the snapshot names has the same value in the request.
C14_VaryIsolation ==
  ( /\ lastCall.op = "get" /\ lastCall.had # Null /\ Had.value.vary # Null
    /\ lastCall.open = {} /\ lastCall.now <= Had.value.deleteAt )
    => ( (lastCall.ok /\ lastCall.value = Had.value)
           <=> SameVaryValues(Had.value, lastCall.request) )

\* an entry written under some-header: hello world, other: a was returned to
\* a request that differs only in other
C14_Witness ==
  /\ lastCall.op = "get" /\ lastCall.ok
  /\ Had.value.vary = HelloSnapshot
  /\ Had.request.headers = HelloA
  /\ lastCall.request.headers = HelloB

(***************************************************************************)
(* C15                                                                      *)
(***************************************************************************)
\* the last call is a get, with the request an entry was written under, made
\* at the time the entry's write stream ended and while no stream is open
GetRightAfterWrite ==
  /\ lastCall.op = "get" /\ lastCall.had # Null
  /\ lastCall.open = {} /\ Had.endedAt = lastCall.now
  /\ lastCall.request = Had.request

\* the get returned the value and the chunks that were written, in order
ReturnedWhatWasWritten ==
  lastCall.ok /\ lastCall.value = Had.value /\ lastCall.body = Had.wrote

\* C15 as stated: a get right after any entry was fully written, with an equal
\* request, returns what was written; a get for a key never written returns
\* undefined.
C15_RoundTripAnyEntry ==
  /\ GetRightAfterWrite => ReturnedWhatWasWritten
  /\ (lastCall.op = "get" /\ lastCall.had = Null) => ~lastCall.ok

\* C15, amended: a get right after an entry was fully written, with an equal
\* request, returns what was written when the entry's deleteAt has not
\* passed; a get for a key never written returns undefined.
C15_RoundTripLiveEntry ==
  /\ (GetRightAfterWrite /\ lastCall.now <= Had.value.deleteAt)
       => ReturnedWhatWasWritten
  /\ (lastCall.op = "get" /\ lastCall.had = Null) => ~lastCall.ok

\* "asd", "123" were written under / and read back in that order, while /asd
\* was never written
C15_Witness ==
  /\ GetRightAfterWrite /\ ReturnedWhatWasWritten
  /\ lastCall.body = <<"asd", "123">>
  /\ lastCall.request.path = "/"
  /\ entries[KeyOf(StoreRequest("/asd", HelloA))] = Null

(***************************************************************************)
(* C16                                                                      *)
(***************************************************************************)
\* the store.put calls that returned a deferred result that fails
FailedDeferred == { k \in 1..Len(puts) : puts[k].outcome \in {"reject", "rejectOther"} }

\* the positions in forwarded of the onError calls made for a failed put
StoreErrors == { f \in 1..Len(forwarded) : forwarded[f].by = "store" }

\* C16: every store.put whose deferred result fails has its failure delivered
\* to the wrapped handler's onError (delivered already, or by a catch callback
\* that is yet to run), only after onComplete was forwarded, and the
\* onComplete call that made the put returned normally and was forwarded.
C16_PutFailureSurfaced ==
  /\ Cardinality(FailedDeferred) = Cardinality(StoreErrors) + rejections
  /\ \A k \in FailedDeferred : ForwardedAt(puts[k].at)
  /\ \A f \in StoreErrors :
       /\ forwarded[f].call.ev = "onError"
       /\ \E g \in 1..(f - 1) :
            forwarded[g].by = "upstream" /\ forwarded[g].call.ev = "onComplete"

(***************************************************************************)
(* C17                                                                      *)
(***************************************************************************)
\* the response lacks Cache-Control or Content-Length, or its Content-Length
\* is not a non-negative integer
NotEligible(res) ==
  \/ ~Has(res.headers, "cache-control")
  \/ ~Has(res.headers, "content-length")
  \/ LET n == Number(res.headers["content-length"])
     IN  ~(n.kind = "num" /\ n.v >= 0)

\* C17: for a response without Cache-Control, without Content-Length or with
\* a Content-Length that is not a non-negative integer, no entry is created,
\* no store.put is ever issued, and the headers are forwarded unchanged.
C17_InvalidLengthNeverStored ==
  \A i \in HeadersAt :
    NotEligible(delivered[i].call.res) =>
      (NeverStored(Ordinal(i)) /\ ForwardedAt(i))

(***************************************************************************)
(* C18                                                                      *)
(***************************************************************************)
\* the entries the handler built: the one it holds and those it put
Built == { puts[k].value : k \in 1..Len(puts) } \cup { value[i] : i \in 1..Len(value) }

\* C18: the staleness window of every entry is the one of the first directive
\* present among s-maxage (with any value, 0 included), immutable (a year,
\* whatever max-age says) and max-age, and it is positive.
C18_FirstDirectiveWins ==
  \A e \in Built :
    LET d == DirectivesOf(e)
        window == e.staleAt - e.cachedAt
    IN  /\ window > 0
        /\ d["s-maxage"].kind = "num" => window = d["s-maxage"].v * 1000
        /\ (d["s-maxage"].kind # "num" /\ d.immutable) => window >= 31536000
        /\ (d["s-maxage"].kind # "num" /\ ~d.immutable /\ d["max-age"].kind = "num")
             => window = d["max-age"].v * 1000

(***************************************************************************)
(* C19                                                                      *)
(***************************************************************************)
\* C19: an entry built for a response with immutable and no s-maxage is fresh
\* for a year: staleAt - cachedAt is 31,536,000 seconds, in milliseconds.
C19_ImmutableOneYear ==
  \A e \in Built :
    (DirectivesOf(e).immutable /\ DirectivesOf(e)["s-maxage"].kind # "num") =>
      /\ (e.staleAt - e.cachedAt) % 1000 = 0
      /\ (e.staleAt - e.cachedAt) \div 1000 = 31536000

(***************************************************************************)
(* C20                                                                      *)
(***************************************************************************)
\* the header names the directives d want removed before storage
NamesToRemove(d) ==
  {"connection"}
  \cup { d["no-cache"].names[i] : i \in 1..Len(d["no-cache"].names) }
  \cup { d.private.names[i] : i \in 1..Len(d.private.names) }

RECURSIVE WithoutHeaders(_, _)
\* the raw header list without the headers (name and value) named in remove
WithoutHeaders(rawHeaders, remove) ==
  IF Len(rawHeaders) < 2 THEN rawHeaders
  ELSE IF ToLowerCase(rawHeaders[1]) \in remove
    THEN WithoutHeaders(SubSeq(rawHeaders, 3, Len(rawHeaders)), remove)
  ELSE <<rawHeaders[1], rawHeaders[2]>>
       \o WithoutHeaders(SubSeq(rawHeaders, 3, Len(rawHeaders)), remove)

\* C20: the rawHeaders of every entry the handler builds are the response's
\* raw headers without Connection and without the headers a no-cache or
\* private list names, the others kept in order.
C20_HeadersStripped ==
  \A e \in Built :
    e.rawHeaders = WithoutHeaders(ResponseOf(e).rawHeaders, NamesToRemove(DirectivesOf(e)))

(***************************************************************************)
(* C21                                                                      *)
(***************************************************************************)
RECURSIVE ChunksOf(_, _, _)
\* the chunks of the onData calls of response n at positions i..k of delivered,
\* in arrival order
ChunksOf(n, i, k) ==
  IF i > k THEN <<>>
  ELSE (IF Ordinal(i) = n /\ delivered[i].call.ev = "onData"
          THEN <<delivered[i].call.chunk>> ELSE <<>>)
       \o ChunksOf(n, i + 1, k)

\* C21: every entry handed to store.put has complete = true, carries the
\* trailers of the completion that made the put, has as body exactly the
\* chunks received for the response it was built for, in arrival order, and
\* has size = header estimate + chunk lengths + trailer length; no entry with
\* complete = false is handed to store.put.
C21_PutEntryFinal ==
  \A k \in 1..Len(puts) :
    LET e == puts[k].value
        rawTrailers == delivered[puts[k].at].call.rawTrailers
        received == ChunksOf(e.resp, 1, puts[k].at - 1)
    IN  /\ e.complete
        /\ e.rawTrailers = rawTrailers
        /\ e.body = received
        /\ e.size = HeaderEstimate(ResponseOf(e)) + SumLen(received)
                      + TrailerBytes(rawTrailers)

(***************************************************************************)
(* C22                                                                      *)
(***************************************************************************)
\* the store.put calls made while response n was being delivered
PutsDuring(n) == { k \in 1..Len(puts) : Ordinal(puts[k].at) = n }

\* the onHeaders call at position i of delivered built no entry
JudgedIneligible(i) ==
  LET res == delivered[i].call.res
      st == [store EXCEPT !.entryCount = delivered[i].entryCount]
  IN  \A now \in Nows(scenario), drift \in Drifts(res) :
        ~onHeadersOutcome(res, req, st, now, drift, Ordinal(i)).build

\* s is an initial part of t
IsPrefix(s, t) == Len(s) <= Len(t) /\ s = SubSeq(t, 1, Len(s))

\* C22: at most one store.put is made per response; a response that onHeaders
\* judged ineligible causes no store.put, and no entry holds chunks of a
\* response other than the one it was built for; on an instance that receives
\* one response after another as well.
C22_OnePutPerResponse ==
  /\ \A n \in 1..resp : Cardinality(PutsDuring(n)) <= 1
  /\ \A i \in HeadersAt : JudgedIneligible(i) => PutsDuring(Ordinal(i)) = {}
  /\ \A e \in Built : IsPrefix(e.body, ChunksOf(e.resp, 1, Len(delivered)))

====
